---- MODULE Spec2Model ----
(***************************************************************************)
(* Model of pystack (src/src/pystack.cc): main() and RunOnce().            *)
(*                                                                         *)
(* main is one sequential thread; pc is its position.  Time is counted in  *)
(* whole microseconds (the unit of `interval` and of the deadline `end`);  *)
(* the two double-valued options are given in units of 1/Resolution of a   *)
(* microsecond so that static_cast<long>(x * 1000000) truncates.           *)
(* PtraceAttach, PtraceDetach, ThreadStateAddr and GetStack live outside   *)
(* src/; only their possible outcomes (return, FatalException,             *)
(* NonFatalException) are modelled.                                        *)
(***************************************************************************)
EXTENDS Integers, Sequences, FiniteSets, TLC

VARIABLES pc, opt, npos, pid, seconds, sample_rate, attached, ptraceLog,
          addr, interval, end, clock, buckets, empty, todo, out, err,
          exitCode, attempts, sleeps, lastOutcome, lastStack, walkAddrs,
          locates, fatal

vars == <<pc, opt, npos, pid, seconds, sample_rate, attached, ptraceLog,
          addr, interval, end, clock, buckets, empty, todo, out, err,
          exitCode, attempts, sleeps, lastOutcome, lastStack, walkAddrs,
          locates, fatal>>

(* ---------------------------- bounds ----------------------------------- *)
\* sub-microsecond resolution of the option values
Resolution == 2
\* largest --seconds value, in 1/Resolution microseconds
MaxSecondsH == 6
\* largest --rate value, in 1/Resolution microseconds
MaxRateH == 4
\* largest time (microseconds) a walk or an oversleep may add to the clock
MaxDelay == 2
\* cap on the number of GetStack calls of one run: one more than the
\* longest duration in microseconds, which a run whose clock advances by at
\* least a microsecond per cycle cannot exceed
MaxAttempts == (MaxSecondsH \div Resolution) + 1

(* ------------------------- program constants --------------------------- *)
\* exitCode while main has not returned
NotExited == -1

\* A long is written sign, millions, units: its value is
\* (IF neg THEN -1 ELSE 1) * (hi * 1000000 + lo), with 0 <= lo < 1000000.
Long(neg, hi, lo) == [neg |-> neg, hi |-> hi, lo |-> lo]

MagLess(a, b) == a.hi < b.hi \/ (a.hi = b.hi /\ a.lo < b.lo)

\* a < b on longs
LongLess(a, b) ==
  CASE a.neg /\ ~b.neg -> a.hi # 0 \/ a.lo # 0 \/ b.hi # 0 \/ b.lo # 0
    [] ~a.neg /\ b.neg -> FALSE
    [] ~a.neg /\ ~b.neg -> MagLess(a, b)
    [] OTHER -> MagLess(b, a)

\* std::numeric_limits<pid_t>::max() and ::min()
PidTMax == Long(FALSE, 2147, 483647)
PidTMin == Long(TRUE, 2147, 483648)

(* ------------------------------ data ----------------------------------- *)
F1 == [file |-> "f.py", function |-> "a", line |-> 1]
F2 == [file |-> "f.py", function |-> "b", line |-> 2]
F3 == [file |-> "g;h.py", function |-> "c", line |-> 13]

\* Stacks GetStack may return, innermost frame first; <<>> is the empty Stack
Stacks == {<<>>, <<F1>>, <<F2>>, <<F2, F1>>, <<F3, F2, F1>>}

\* values of the PID argument as strtol returns them
Pids == {Long(FALSE, 0, 1234), Long(FALSE, 999999, 999999),
         Long(FALSE, 2147, 483648), Long(TRUE, 2147, 483649)}

\* addresses ThreadStateAddr may return
Addrs == {4096, 8192}
NoAddr == 0

Min(a, b) == IF a < b THEN a ELSE b

\* the clock saturates above every deadline the bounds allow
ClockCap == MaxSecondsH + MaxDelay + 1

Advance(d) == Min(clock + d, ClockCap)

\* static_cast<long>(x * 1000000) for x >= 0: truncation to microseconds
ToMicros(x) == x \div Resolution

RECURSIVE Reverse(_)
Reverse(s) == IF s = <<>> THEN <<>> ELSE Append(Reverse(Tail(s)), Head(s))

RECURSIVE SumCounts(_, _)
SumCounts(b, keys) ==
  IF keys = {} THEN 0
  ELSE LET k == CHOOSE x \in keys : TRUE
       IN b[k] + SumCounts(b, keys \ {k})

\* sum of all counts of the bucket map
BucketTotal == SumCounts(buckets, DOMAIN buckets)

EmptyMap == [k \in {} |-> 0]

(* Output text is a sequence of tokens: a token is one delimiter character *)
(* (";", " ", ":", a newline), one decimal digit, or a maximal run of other  *)
(* characters.                                                             *)
DigitChars == <<"0", "1", "2", "3", "4", "5", "6", "7", "8", "9">>

\* operator<< for an unsigned integer: its decimal digits
RECURSIVE Digits(_)
Digits(n) ==
  IF n < 10 THEN <<DigitChars[n + 1]>>
  ELSE Digits(n \div 10) \o <<DigitChars[(n % 10) + 1]>>

\* the tokens of a file name: the path of F3 contains a ';'
Lex(str) == IF str = "g;h.py" THEN <<"g", ";", "h.py">> ELSE <<str>>

\* operator<< for a Frame: file:function:line
Text(f) == Lex(f.file) \o <<":", f.function, ":">> \o Digits(f.line)

\* lines 153-155: every frame of r followed by ";"
RECURSIVE FoldPrefix(_)
FoldPrefix(r) ==
  IF r = <<>> THEN <<>> ELSE Text(Head(r)) \o <<";">> \o FoldPrefix(Tail(r))

\* lines 151-156: the frames of s from rbegin() to the element before
\* rend(), each followed by ";", then the last one, " ", the count, "\n"
Fold(s, n) ==
  LET r == Reverse(s)
  IN FoldPrefix(SubSeq(r, 1, Len(r) - 1)) \o Text(r[Len(r)]) \o <<" ">>
       \o Digits(n) \o <<"\n">>

FrameLine(f) ==
  [kind |-> "frame", frames |-> <<f>>, count |-> 0,
   text |-> Text(f) \o <<"\n">>]
NullLine(n) ==
  [kind |-> "null", frames |-> <<>>, count |-> n,
   text |-> <<"(null)", " ">> \o Digits(n) \o <<"\n">>]
BucketLine(s, n) ==
  [kind |-> "bucket", frames |-> Reverse(s), count |-> n, text |-> Fold(s, n)]

RECURSIVE FrameLines(_)
FrameLines(s) ==
  IF s = <<>> THEN <<>> ELSE <<FrameLine(Head(s))>> \o FrameLines(Tail(s))

(* ------------------------------ Init ----------------------------------- *)
Init ==
  /\ pc = "options"
  /\ opt \in {"none", "help", "version"}
  /\ npos \in {0, 1, 2}
  /\ pid \in Pids
  /\ seconds \in 0..MaxSecondsH
  /\ sample_rate \in 1..MaxRateH
  /\ attached = FALSE
  /\ ptraceLog = <<>>
  /\ addr = NoAddr
  /\ interval = 0
  /\ end = 0
  /\ clock = 0
  /\ buckets = EmptyMap
  /\ empty = 0
  /\ todo = {}
  /\ out = <<>>
  /\ err = <<>>
  /\ exitCode = NotExited
  /\ attempts = 0
  /\ sleeps = 0
  /\ lastOutcome = "none"
  /\ lastStack = <<>>
  /\ walkAddrs = {}
  /\ locates = 0
  /\ fatal = FALSE

(* --------------------------- exit paths -------------------------------- *)
UsageLine ==
  [kind |-> "usage", frames |-> <<>>, count |-> 0, text |-> <<"usage_str">>]
VersionLine ==
  [kind |-> "version", frames |-> <<>>, count |-> 0,
   text |-> <<"PACKAGE_STRING", "\n">>]

\* return <code> from main
Return(code) ==
  /\ pc' = "done"
  /\ exitCode' = code

\* catch (const FatalException &exc): diagnostic, return 1
CatchFatal ==
  /\ err' = Append(err, "fatal")
  /\ fatal' = TRUE
  /\ Return(1)

\* catch (const NonFatalException &exc) of the outer try: diagnostic, return 0
CatchNonFatal ==
  /\ err' = Append(err, "nonfatal")
  /\ Return(0)

(* --------------------------- option parsing ---------------------------- *)
ParseOptions ==
  /\ pc = "options"
  /\ CASE opt = "help" -> /\ out' = Append(out, UsageLine)
                          /\ Return(0)
       [] opt = "version" -> /\ out' = Append(out, VersionLine)
                             /\ Return(0)
       [] OTHER -> /\ pc' = "args"
                   /\ UNCHANGED <<out, exitCode>>
  /\ UNCHANGED <<opt, npos, pid, seconds, sample_rate, attached, ptraceLog,
                 addr, interval, end, clock, buckets, empty, todo, err,
                 attempts, sleeps, lastOutcome, lastStack,
                 walkAddrs, locates, fatal>>

\* CheckArgs without the pid < min test of line 107
CheckArgsNoLowerBound ==
  /\ pc = "args"
  /\ IF npos # 1
       THEN /\ err' = Append(err, "usage")
            /\ Return(1)
       ELSE IF LongLess(PidTMax, pid)
         THEN /\ err' = Append(err, "pid out of range")
              /\ Return(1)
         ELSE /\ pc' = "attach0"
              /\ UNCHANGED <<err, exitCode>>
  /\ UNCHANGED <<opt, npos, pid, seconds, sample_rate, attached, ptraceLog,
                 addr, interval, end, clock, buckets, empty, todo, out,
                 attempts, sleeps, lastOutcome, lastStack, walkAddrs, locates,
                 fatal>>

\* lines 101-110
CheckArgs ==
  /\ pc = "args"
  /\ IF npos # 1
       THEN /\ err' = Append(err, "usage")
            /\ Return(1)
       ELSE IF LongLess(PidTMax, pid) \/ LongLess(pid, PidTMin)
         THEN /\ err' = Append(err, "pid out of range")
              /\ Return(1)
         ELSE /\ pc' = "attach0"
              /\ UNCHANGED <<err, exitCode>>
  /\ UNCHANGED <<opt, npos, pid, seconds, sample_rate, attached, ptraceLog,
                 addr, interval, end, clock, buckets, empty, todo, out,
                 attempts, sleeps, lastOutcome, lastStack,
                 walkAddrs, locates, fatal>>

(* ------------------------- attach and locate --------------------------- *)
\* PtraceAttach(pid) returns: the target is now traced by this tool
AttachOk(next) ==
  /\ attached' = TRUE
  /\ ptraceLog' = Append(ptraceLog, "attach")
  /\ pc' = next
  /\ UNCHANGED <<err, exitCode, fatal>>

\* AttachFail handled as the end of the sampling: what was accumulated is
\* reported
AttachFailReports ==
  /\ err' = Append(err, "fatal")
  /\ fatal' = TRUE
  /\ pc' = "report"
  /\ UNCHANGED <<attached, ptraceLog, exitCode>>

\* PtraceAttach(pid) throws FatalException
AttachFail ==
  /\ CatchFatal
  /\ UNCHANGED <<attached, ptraceLog>>

\* line 112
AttachInitial ==
  /\ pc = "attach0"
  /\ \/ AttachOk("locate")
     \/ AttachFail
  /\ UNCHANGED <<opt, npos, pid, seconds, sample_rate, addr, interval, end,
                 clock, buckets, empty, todo, out, attempts, sleeps,
                 lastOutcome, lastStack,
                 walkAddrs, locates>>

\* line 113
LocateThreadState ==
  /\ pc = "locate"
  /\ locates' = locates + 1
  /\ \/ /\ \E a \in Addrs : addr' = a
        /\ pc' = "mode"
        /\ UNCHANGED <<err, exitCode, fatal>>
     \/ /\ CatchFatal
        /\ UNCHANGED addr
  /\ UNCHANGED <<opt, npos, pid, seconds, sample_rate, attached, ptraceLog,
                 interval, end, clock, buckets, empty, todo, out, attempts,
                 sleeps, lastOutcome, lastStack, walkAddrs>>

\* lines 114-121 and the else of line 158
SelectMode ==
  /\ pc = "mode"
  /\ IF seconds # 0
       THEN /\ interval' = ToMicros(sample_rate)
            /\ end' = clock + ToMicros(seconds)
            /\ buckets' = EmptyMap
            /\ empty' = 0
            /\ pc' = "walk"
       ELSE /\ pc' = "once"
            /\ UNCHANGED <<interval, end, buckets, empty>>
  /\ UNCHANGED <<opt, npos, pid, seconds, sample_rate, attached, ptraceLog,
                 addr, clock, todo, out, err, exitCode, attempts, sleeps,
                 lastOutcome, lastStack,
                 walkAddrs, locates, fatal>>

(* ------------------------------ single shot ---------------------------- *)
\* RunOnceStack iterating from begin() to end() instead of rbegin() to rend()
RunOnceStackForward(s) ==
  /\ out' = out \o FrameLines(s)
  /\ lastOutcome' = "stack"
  /\ lastStack' = s
  /\ attempts' = attempts + 1
  /\ pc' = "ranonce"
  /\ UNCHANGED <<err, exitCode, fatal>>

\* RunOnce, GetStack returned s: print the frames outermost first
RunOnceStack(s) ==
  /\ out' = out \o FrameLines(Reverse(s))
  /\ lastOutcome' = "stack"
  /\ lastStack' = s
  /\ attempts' = attempts + 1
  /\ pc' = "ranonce"
  /\ UNCHANGED <<err, exitCode, fatal>>

\* RunOnceNonFatal with the exception reported as a failure
RunOnceNonFatalFails ==
  /\ lastOutcome' = "nonfatal"
  /\ UNCHANGED lastStack
  /\ attempts' = attempts + 1
  /\ err' = Append(err, "nonfatal")
  /\ Return(1)
  /\ UNCHANGED <<out, fatal>>

\* RunOnce, GetStack threw NonFatalException: caught at line 164
RunOnceNonFatal ==
  /\ lastOutcome' = "nonfatal"
  /\ UNCHANGED lastStack
  /\ attempts' = attempts + 1
  /\ CatchNonFatal
  /\ UNCHANGED <<out, fatal>>

\* RunOnce, GetStack threw FatalException: caught at line 161
RunOnceFatal ==
  /\ lastOutcome' = "fatal"
  /\ UNCHANGED lastStack
  /\ CatchFatal
  /\ UNCHANGED <<out, attempts>>

\* line 159: RunOnce(pid, addr) calls GetStack(pid, addr)
RunOnce ==
  /\ pc = "once"
  /\ walkAddrs' = walkAddrs \cup {addr}
  /\ \/ \E s \in Stacks : RunOnceStack(s)
     \/ RunOnceNonFatal
     \/ RunOnceFatal
  /\ UNCHANGED <<opt, npos, pid, seconds, sample_rate, attached, ptraceLog,
                 addr, interval, end, clock, buckets, empty, todo, sleeps,
                 locates>>

(* ----------------------------- sampling loop --------------------------- *)
\* bitwise exclusive or of two naturals
RECURSIVE Xor(_, _)
Xor(a, b) ==
  IF a = 0 THEN b
  ELSE IF b = 0 THEN a
  ELSE 2 * Xor(a \div 2, b \div 2) + ((a + b) % 2)

\* std::hash<std::string>: some fixed function of the string
StrHash(str) == IF str = "f.py" THEN 1 ELSE 6

\* lines 46-55: position and file name of every frame, combined with ^;
\* std::hash<size_t> is the identity
RECURSIVE HashFrom(_, _, _)
HashFrom(frames, i, hash) ==
  IF i > Len(frames) THEN hash
  ELSE HashFrom(frames, i + 1, Xor(Xor(hash, i - 1), StrHash(frames[i].file)))

FrameHash(frames) == HashFrom(frames, 1, 0)

\* Find comparing hash values only
FindByHashOnly(frames) ==
  {k \in DOMAIN buckets : FrameHash(k) = FrameHash(frames)}

\* line 125, unordered_map::find: the keys with the hash of frames that are
\* equal to frames (at most one); the empty set stands for end()
Find(frames) ==
  {k \in DOMAIN buckets : FrameHash(k) = FrameHash(frames) /\ k = frames}

\* Count with the increment of line 129 lost
CountNoIncrement(frames) ==
  [k \in DOMAIN buckets \cup {frames} |->
     IF k = frames THEN 1 ELSE buckets[k]]

\* lines 125-130: find the stack in the map, insert it with 1 or increment
Count(frames) ==
  LET it == Find(frames)
  IN IF it = {}
       THEN [k \in DOMAIN buckets \cup {frames} |->
               IF k = frames THEN 1 ELSE buckets[k]]
       ELSE [buckets EXCEPT ![CHOOSE k \in it : TRUE] = @ + 1]

\* lines 124-130: GetStack returned frames
WalkStack(frames) ==
  /\ buckets' = Count(frames)
  /\ lastOutcome' = "stack"
  /\ lastStack' = frames
  /\ attempts' = attempts + 1
  /\ pc' = "check"
  /\ UNCHANGED <<empty, err, exitCode, fatal>>

\* WalkNonFatal with a continue in the handler: the next walk follows at
\* once, without the deadline test of lines 134-137
WalkNonFatalContinues ==
  /\ empty' = empty + 1
  /\ lastOutcome' = "nonfatal"
  /\ UNCHANGED lastStack
  /\ attempts' = attempts + 1
  /\ pc' = "walk"
  /\ UNCHANGED <<buckets, err, exitCode, fatal>>

\* WalkNonFatal without the inner try: the exception reaches line 164
WalkNonFatalPropagates ==
  /\ lastOutcome' = "nonfatal"
  /\ UNCHANGED lastStack
  /\ attempts' = attempts + 1
  /\ CatchNonFatal
  /\ UNCHANGED <<buckets, empty, fatal>>

\* lines 131-133: GetStack threw NonFatalException
WalkNonFatal ==
  /\ empty' = empty + 1
  /\ lastOutcome' = "nonfatal"
  /\ UNCHANGED lastStack
  /\ attempts' = attempts + 1
  /\ pc' = "check"
  /\ UNCHANGED <<buckets, err, exitCode, fatal>>

\* WalkFatal with the exception absorbed in the loop like a non-fatal one
WalkFatalAbsorbed ==
  /\ lastOutcome' = "fatal"
  /\ UNCHANGED lastStack
  /\ fatal' = TRUE
  /\ empty' = empty + 1
  /\ pc' = "check"
  /\ UNCHANGED <<buckets, attempts, err, exitCode>>

\* GetStack threw FatalException: not caught in the loop, caught at line 161
WalkFatal ==
  /\ lastOutcome' = "fatal"
  /\ UNCHANGED lastStack
  /\ CatchFatal
  /\ UNCHANGED <<buckets, empty, attempts>>

\* lines 123-133: GetStack(pid, addr); the walk takes d microseconds
Walk ==
  /\ pc = "walk"
  /\ attempts < MaxAttempts
  /\ walkAddrs' = walkAddrs \cup {addr}
  /\ \E d \in 0..MaxDelay : clock' = Advance(d)
  /\ \/ \E frames \in Stacks : WalkStack(frames)
     \/ WalkNonFatal
     \/ WalkFatal
  /\ UNCHANGED <<opt, npos, pid, seconds, sample_rate, attached, ptraceLog,
                 addr, interval, end, todo, out, sleeps, locates>>

\* Check with the interval left out of the test of line 135
CheckIgnoresInterval ==
  /\ pc = "check"
  /\ pc' = IF clock >= end THEN "report" ELSE "detach"
  /\ UNCHANGED <<opt, npos, pid, seconds, sample_rate, attached, ptraceLog,
                 addr, interval, end, clock, buckets, empty, todo, out, err,
                 exitCode, attempts, sleeps, lastOutcome, lastStack, walkAddrs,
                 locates, fatal>>

\* Check with > in place of >= at line 135
CheckStrict ==
  /\ pc = "check"
  /\ pc' = IF clock + interval > end THEN "report" ELSE "detach"
  /\ UNCHANGED <<opt, npos, pid, seconds, sample_rate, attached, ptraceLog,
                 addr, interval, end, clock, buckets, empty, todo, out, err,
                 exitCode, attempts, sleeps, lastOutcome, lastStack, walkAddrs,
          locates, fatal>>

\* Check with the detach and the sleep of lines 138-139 left out
CheckNoDetach ==
  /\ pc = "check"
  /\ pc' = IF clock + interval >= end THEN "report" ELSE "attach"
  /\ UNCHANGED <<opt, npos, pid, seconds, sample_rate, attached, ptraceLog,
                 addr, interval, end, clock, buckets, empty, todo, out, err,
                 exitCode, attempts, sleeps, lastOutcome, lastStack, walkAddrs,
          locates, fatal>>

\* lines 134-137: now = clock; break when now + interval >= end
Check ==
  /\ pc = "check"
  /\ pc' = IF clock + interval >= end THEN "report" ELSE "detach"
  /\ UNCHANGED <<opt, npos, pid, seconds, sample_rate, attached, ptraceLog,
                 addr, interval, end, clock, buckets, empty, todo, out, err,
                 exitCode, attempts, sleeps, lastOutcome, lastStack, walkAddrs,
          locates, fatal>>

\* Detach with a failure of PtraceDetach ignored
DetachIgnoreFailure ==
  /\ pc = "detach"
  /\ \/ /\ attached' = FALSE
        /\ ptraceLog' = Append(ptraceLog, "detach")
     \/ UNCHANGED <<attached, ptraceLog>>
  /\ pc' = "sleep"
  /\ UNCHANGED <<opt, npos, pid, seconds, sample_rate, addr, interval, end,
                 clock, buckets, empty, todo, out, attempts, sleeps,
                 lastOutcome, lastStack,
                 walkAddrs, locates, err, exitCode, fatal>>

\* line 138: PtraceDetach(pid) returns, or throws FatalException
Detach ==
  /\ pc = "detach"
  /\ \/ /\ attached' = FALSE
        /\ ptraceLog' = Append(ptraceLog, "detach")
        /\ pc' = "sleep"
        /\ UNCHANGED <<err, exitCode, fatal>>
     \/ /\ CatchFatal
        /\ UNCHANGED <<attached, ptraceLog>>
  /\ UNCHANGED <<opt, npos, pid, seconds, sample_rate, addr, interval, end,
                 clock, buckets, empty, todo, out, attempts, sleeps,
                 lastOutcome, lastStack,
                 walkAddrs, locates>>

\* Sleep followed directly by the next walk, line 140 left out
SleepNoReattach ==
  /\ pc = "sleep"
  /\ \E d \in 0..MaxDelay : clock' = Advance(interval + d)
  /\ sleeps' = sleeps + 1
  /\ pc' = "walk"
  /\ UNCHANGED <<opt, npos, pid, seconds, sample_rate, attached, ptraceLog,
                 addr, interval, end, buckets, empty, todo, out, err,
                 exitCode, attempts, lastOutcome, lastStack, walkAddrs,
                 locates, fatal>>

\* line 139: sleep_for(interval) blocks for at least interval
Sleep ==
  /\ pc = "sleep"
  /\ \E d \in 0..MaxDelay : clock' = Advance(interval + d)
  /\ sleeps' = sleeps + 1
  /\ pc' = "attach"
  /\ UNCHANGED <<opt, npos, pid, seconds, sample_rate, attached, ptraceLog,
                 addr, interval, end, buckets, empty, todo, out, err,
                 exitCode, attempts, lastOutcome, lastStack,
                 walkAddrs, locates, fatal>>

\* Reattach resolving the thread-state address again after the attach
ReattachRelocates ==
  /\ pc = "attach"
  /\ \/ /\ AttachOk("walk")
        /\ \E a \in Addrs : addr' = a
        /\ locates' = locates + 1
     \/ /\ AttachFail
        /\ UNCHANGED <<addr, locates>>
  /\ UNCHANGED <<opt, npos, pid, seconds, sample_rate, interval, end,
                 clock, buckets, empty, todo, out, attempts, sleeps,
                 lastOutcome, lastStack, walkAddrs>>

\* line 140
Reattach ==
  /\ pc = "attach"
  /\ \/ AttachOk("walk")
     \/ AttachFail
  /\ UNCHANGED <<opt, npos, pid, seconds, sample_rate, addr, interval, end,
                 clock, buckets, empty, todo, out, attempts, sleeps,
                 lastOutcome, lastStack,
                 walkAddrs, locates>>

(* ------------------------------- output -------------------------------- *)
\* Report without the test of line 142
ReportAlwaysNull ==
  /\ pc = "report"
  /\ out' = Append(out, NullLine(empty))
  /\ todo' = DOMAIN buckets
  /\ pc' = "print"
  /\ UNCHANGED <<opt, npos, pid, seconds, sample_rate, attached, ptraceLog,
                 addr, interval, end, clock, buckets, empty, err, exitCode,
                 attempts, sleeps, lastOutcome, lastStack, walkAddrs, locates,
                 fatal>>

\* lines 142-144, and the start of the iteration of line 146
Report ==
  /\ pc = "report"
  /\ out' = IF empty # 0 THEN Append(out, NullLine(empty)) ELSE out
  /\ todo' = DOMAIN buckets
  /\ pc' = "print"
  /\ UNCHANGED <<opt, npos, pid, seconds, sample_rate, attached, ptraceLog,
                 addr, interval, end, clock, buckets, empty, err, exitCode,
                 attempts, sleeps, lastOutcome, lastStack,
                 walkAddrs, locates, fatal>>

\* PrintEmptyKey with the empty bucket skipped instead of reported
PrintEmptyKeySkipped ==
  /\ todo' = todo \ {<<>>}
  /\ UNCHANGED <<out, pc, err, exitCode>>

\* lines 147-150: the bucket's key is the empty stack
PrintEmptyKey ==
  /\ err' = Append(err, "uh oh")
  /\ Return(1)
  /\ UNCHANGED <<out, todo>>

\* lines 151-156: one folded line for the bucket of key k
PrintLine(k) ==
  /\ out' = Append(out, BucketLine(k, buckets[k]))
  /\ todo' = todo \ {k}
  /\ UNCHANGED <<pc, err, exitCode>>

\* lines 146-157: one iteration; unordered_map iterates in an arbitrary order
PrintBucket ==
  /\ pc = "print"
  /\ \E k \in todo : IF k = <<>> THEN PrintEmptyKey ELSE PrintLine(k)
  /\ UNCHANGED <<opt, npos, pid, seconds, sample_rate, attached, ptraceLog,
                 addr, interval, end, clock, buckets, empty, attempts, sleeps,
                 lastOutcome, lastStack,
                 walkAddrs, locates, fatal>>

\* line 171, after the bucket loop or after RunOnce
ReturnZero ==
  /\ \/ pc = "print" /\ todo = {}
     \/ pc = "ranonce"
  /\ Return(0)
  /\ UNCHANGED <<opt, npos, pid, seconds, sample_rate, attached, ptraceLog,
                 addr, interval, end, clock, buckets, empty, todo, out, err,
                 attempts, sleeps, lastOutcome, lastStack,
                 walkAddrs, locates, fatal>>

(* --------------------------- specification ----------------------------- *)
Next ==
  \/ ParseOptions
  \/ CheckArgs
  \/ AttachInitial
  \/ LocateThreadState
  \/ SelectMode
  \/ RunOnce
  \/ Walk
  \/ Check
  \/ Detach
  \/ Sleep
  \/ Reattach
  \/ Report
  \/ PrintBucket
  \/ ReturnZero

Spec == Init /\ [][Next]_vars

TypeOK ==
  /\ pc \in {"options", "args", "attach0", "locate", "mode", "once",
             "ranonce", "walk", "check", "detach", "sleep", "attach",
             "report", "print", "done"}
  /\ attached \in BOOLEAN
  /\ addr \in Addrs \cup {NoAddr}
  /\ clock \in 0..ClockCap
  /\ DOMAIN buckets \subseteq Stacks
  /\ todo \subseteq Stacks
  /\ exitCode \in {NotExited, 0, 1}
  /\ attempts \in 0..MaxAttempts
  /\ (pc = "done") <=> (exitCode # NotExited)

(* ------------------------- attach/detach lifecycle --------------------- *)
NumCalls(op) == Cardinality({i \in DOMAIN ptraceLog : ptraceLog[i] = op})

\* C1: at program exit the number of successful PtraceAttach calls equals
\* the number of PtraceDetach calls and the target is not left attached.
C1_DetachOnEveryExit ==
  pc = "done" => (NumCalls("attach") = NumCalls("detach") /\ ~attached)

\* C2: the PtraceAttach and PtraceDetach calls alternate, starting with an
\* attach: PtraceAttach is never called while the target is attached and
\* PtraceDetach is never called while it is not.
C2_AttachDetachAlternate ==
  /\ \A i \in DOMAIN ptraceLog :
       ptraceLog[i] = IF i % 2 = 1 THEN "attach" ELSE "detach"
  /\ attached <=> (Len(ptraceLog) % 2 = 1)
  /\ pc \in {"attach0", "attach"} => ~attached
  /\ pc = "detach" => attached

C2_Witness ==
  /\ ptraceLog = <<"attach", "detach", "attach">>
  /\ attached

\* C3: whenever the tool is inside the inter-sample sleep, the target is
\* not attached.
C3_DetachedWhileSleeping == pc = "sleep" => ~attached

C3_Witness ==
  /\ pc = "sleep"
  /\ ~attached
  /\ Len(ptraceLog) = 4

(* ------------------------------ accounting ----------------------------- *)
\* C4: in a sampling run EmptyCount plus the sum of all bucket counts equals
\* the number of completed capture attempts, after every attempt and when the
\* output is printed.
C4_CountsAddUp == seconds # 0 => empty + BucketTotal = attempts

C4_Witness ==
  /\ pc = "print"
  /\ empty = 1
  /\ \E k \in DOMAIN buckets : buckets[k] = 2
  /\ attempts = 3

\* C5: an empty Stack returned by GetStack is never a key of the bucket map.
C5_EmptyStackNeverBucketed == <<>> \notin DOMAIN buckets

(* ----------------------------- error handling -------------------------- *)
\* C6: a FatalError raised anywhere ends the run at once with exit code 1:
\* after it no attach, detach, walk or sleep is performed.
C6_FatalAborts ==
  /\ [](fatal => (pc = "done" /\ exitCode = 1))
  /\ [][fatal => UNCHANGED <<ptraceLog, attempts, sleeps, lastOutcome>>]_vars

C6_Witness ==
  /\ fatal
  /\ exitCode = 1
  /\ sleeps = 1
  /\ ~attached
  /\ attempts = 1

\* C7: in sampling mode a NonFatalError of a walk adds exactly one to
\* EmptyCount, leaves the buckets alone and does not end the run; the next
\* cycle starts whenever now + interval < deadline.
C7_NonFatalAbsorbed ==
  /\ [][(pc = "walk" /\ lastOutcome' = "nonfatal") =>
          (/\ empty' = empty + 1
           /\ buckets' = buckets
           /\ pc' = "check"
           /\ exitCode' = NotExited)]_vars
  /\ [][(pc = "check" /\ lastOutcome = "nonfatal" /\ clock + interval < end)
          => pc' = "detach"]_vars

C7_Witness ==
  /\ pc = "detach"
  /\ lastOutcome = "nonfatal"
  /\ empty = 2
  /\ buckets = EmptyMap

\* C8: in single-shot mode a NonFatalError of the walk ends the run with a
\* diagnostic, nothing on standard output and exit code 0.
C8_SingleShotNonFatal ==
  (pc = "done" /\ seconds = 0 /\ lastOutcome = "nonfatal") =>
    (exitCode = 0 /\ out = <<>> /\ err = <<"nonfatal">>)

C8_Witness ==
  /\ pc = "done"
  /\ seconds = 0
  /\ lastOutcome = "nonfatal"
  /\ attached

\* C9: a run that ends with the empty Stack as a key of the bucket map exits
\* with code 1; the empty bucket is reported, never printed or skipped.
C9_EmptyKeyFails ==
  (pc = "done" /\ <<>> \in DOMAIN buckets) =>
    /\ exitCode = 1
    /\ ~fatal => err = <<"uh oh">>
    /\ \A i \in DOMAIN out : out[i].kind = "bucket" => out[i].frames # <<>>

C9_Witness ==
  /\ pc = "done"
  /\ <<>> \in DOMAIN buckets
  /\ ~fatal
  /\ exitCode = 1
  /\ \E i \in DOMAIN out : out[i].kind = "bucket"

(* ------------------------- number of capture attempts ------------------ *)
\* the sampling loop was left through its break
LoopFinished ==
  \/ pc \in {"report", "print"}
  \/ pc = "done" /\ seconds # 0 /\ ~fatal /\ ptraceLog # <<>>

Floor(a, b) == a \div b
Ceil(a, b) == (a + b - 1) \div b

\* C10 as stated: a sampling run not aborted by a FatalError performs at
\* least floor(D/I) and at most ceil(D/I) capture attempts.
C10_AttemptsBetweenFloorAndCeil ==
  LoopFinished =>
    /\ attempts >= Floor(seconds, sample_rate)
    /\ attempts <= Ceil(seconds, sample_rate)

\* C10 amended: with the interval truncated to whole microseconds and at
\* least 1, a sampling run not aborted by a FatalError performs at least one
\* and at most ceil(D / truncated interval) capture attempts.
C10_AttemptsAtMostCeil ==
  (LoopFinished /\ interval >= 1) =>
    /\ attempts >= 1
    /\ attempts <= Ceil(seconds, interval * Resolution)

C10_Witness ==
  /\ pc = "done"
  /\ LoopFinished
  /\ interval >= 1
  /\ attempts >= 2
  /\ attempts = Ceil(seconds, interval * Resolution)

(* ------------------------------ output format -------------------------- *)
\* the value of a decimal digit string
RECURSIVE Num(_)
Num(ds) ==
  IF ds = <<>> THEN 0
  ELSE 10 * Num(SubSeq(ds, 1, Len(ds) - 1))
         + (CHOOSE d \in 0..9 : DigitChars[d + 1] = ds[Len(ds)])

\* the pieces of t between the occurrences of the token sep
RECURSIVE Split(_, _)
Split(t, sep) ==
  IF \A i \in DOMAIN t : t[i] # sep THEN <<t>>
  ELSE LET i == CHOOSE j \in DOMAIN t :
                  t[j] = sep /\ \A h \in 1..(j - 1) : t[h] # sep
       IN <<SubSeq(t, 1, i - 1)>> \o Split(SubSeq(t, i + 1, Len(t)), sep)

\* a folded line read back: the newline dropped, the count after the last
\* space, the frames between the ';' before it
Decode(t) ==
  LET body == SubSeq(t, 1, Len(t) - 1)
      sp == CHOOSE j \in DOMAIN body :
              body[j] = " " /\ \A h \in (j + 1)..Len(body) : body[h] # " "
  IN [frames |-> Split(SubSeq(body, 1, sp - 1), ";"),
      count |-> Num(SubSeq(body, sp + 1, Len(body)))]

\* the texts of the frames of s, outermost first
Outermost(s) == [i \in 1..Len(s) |-> Text(Reverse(s)[i])]

\* C11: at the end of a sampling run every bucket with a non-empty Stack is
\* printed as exactly one line, and splitting that line on ';' and on the
\* trailing space gives back the frames outermost first and the count.
C11_FoldedLineRoundTrip ==
  (pc = "done" /\ LoopFinished) =>
    \A k \in DOMAIN buckets \ {<<>>} :
      Cardinality({i \in DOMAIN out :
                     /\ out[i].kind = "bucket"
                     /\ Decode(out[i].text) =
                          [frames |-> Outermost(k), count |-> buckets[k]]}) = 1

\* the frames printed on standard output, in the order of their lines
Printed == [i \in DOMAIN out |-> out[i].frames[1]]

\* C12: single-shot mode prints the walked Stack one frame per line, the
\* outermost frame first and nothing else; the printed frames reversed are
\* the Stack as GetStack returned it.
C12_SingleShotReversed ==
  (seconds = 0 /\ lastOutcome = "stack" /\ pc \in {"ranonce", "done"}) =>
    /\ Len(out) = Len(lastStack)
    /\ \A i \in DOMAIN out :
         /\ out[i].kind = "frame"
         /\ out[i].text = Text(lastStack[Len(lastStack) + 1 - i]) \o <<"\n">>
    /\ Reverse(Printed) = lastStack

C12_Witness ==
  /\ pc = "done"
  /\ seconds = 0
  /\ lastStack = <<F3, F2, F1>>
  /\ Len(out) = 3
  /\ out[1].frames = <<F1>>

\* the positions of the "(null) <count>" lines of the output
NullLines == {i \in DOMAIN out : out[i].kind = "null"}

\* the sampling loop was left through its break and line 142 has run
Reported == LoopFinished /\ pc # "report"

\* C13: at the end of a sampling run a "(null) <count>" line is printed iff
\* EmptyCount > 0; it carries EmptyCount and comes before every bucket line.
\* When every capture returned the same non-empty stack the output is one
\* folded line for it whose count is the number of capture attempts.
C13_NullLine ==
  /\ Reported =>
       /\ (empty > 0) <=> (NullLines # {})
       /\ \A i \in NullLines :
            /\ i = 1
            /\ out[i].text = <<"(null)", " ">> \o Digits(empty) \o <<"\n">>
  /\ \A s \in Stacks \ {<<>>} :
       (pc = "done" /\ Reported /\ DOMAIN buckets = {s} /\ empty = 0) =>
         /\ Len(out) = 1
         /\ out[1].kind = "bucket"
         /\ out[1].frames = Reverse(s)
         /\ out[1].count = attempts

C13_Witness ==
  /\ pc = "done"
  /\ Reported
  /\ empty = 1
  /\ Len(out) = 2
  /\ out[1].kind = "null"
  /\ out[2].kind = "bucket"

\* C14: when PtraceAttach fails, at line 112 or at line 140 after samples
\* were accumulated, the program exits with code 1 and standard output is
\* empty.
C14_AttachFailureNoOutput ==
  [][(pc \in {"attach0", "attach"} /\ fatal') =>
       (pc' = "done" /\ exitCode' = 1 /\ out' = <<>>)]_vars

C14_Witness ==
  /\ pc = "done"
  /\ fatal
  /\ ~attached
  /\ sleeps = 1
  /\ DOMAIN buckets = {<<F1>>}
  /\ exitCode = 1
  /\ out = <<>>

(* ------------------------------ PID argument --------------------------- *)
\* the value of pid is outside [-2147483648, 2147483647]
OutOfPidRange ==
  \/ pid.hi > 2147
  \/ pid.hi = 2147 /\ pid.lo > (IF pid.neg THEN 483648 ELSE 483647)

\* C15: when the PID argument is parsed (line 105) to a value outside the
\* range of pid_t, main returns 1 with the out-of-range diagnostic, and no
\* attach, locate or walk is ever attempted.
C15_PidOutOfRange ==
  /\ [][(pc = "args" /\ npos = 1 /\ OutOfPidRange) =>
          (/\ pc' = "done"
           /\ exitCode' = 1
           /\ err' = <<"pid out of range">>
           /\ out' = <<>>)]_vars
  /\ [](OutOfPidRange =>
          (/\ pc \in {"options", "args", "done"}
           /\ ptraceLog = <<>>
           /\ locates = 0
           /\ walkAddrs = {}))

C15_Witness ==
  /\ pc = "done"
  /\ pid = Long(FALSE, 999999, 999999)
  /\ err = <<"pid out of range">>
  /\ exitCode = 1

(* ------------------------------- bucketing ----------------------------- *)
\* C16: a successful walk of the sampling loop adds one to the count of the
\* entry whose key is the returned Stack (created with 1 if absent) and
\* changes no other entry nor EmptyCount; every stored count is positive and
\* the returned Stack is a key afterwards.
C16_OneBucketChanges ==
  /\ [][(pc = "walk" /\ lastOutcome' = "stack") =>
          LET s == lastStack'
          IN /\ DOMAIN buckets' = DOMAIN buckets \cup {s}
             /\ buckets'[s] = IF s \in DOMAIN buckets THEN buckets[s] + 1
                              ELSE 1
             /\ \A k \in DOMAIN buckets \ {s} : buckets'[k] = buckets[k]
             /\ empty' = empty]_vars
  /\ [](\A k \in DOMAIN buckets : buckets[k] > 0)

C16_Witness ==
  /\ pc = "check"
  /\ DOMAIN buckets = {<<F1>>, <<F2>>}
  /\ FrameHash(<<F1>>) = FrameHash(<<F2>>)
  /\ buckets[<<F2>>] = 2
  /\ lastStack = <<F2>>

(* ------------------------------ loop control --------------------------- *)
\* C17: the first capture is attempted unconditionally; after a capture a
\* further cycle starts only if now + interval < deadline, and otherwise the
\* loop ends with no further detach, sleep, attach or walk.
C17_LoopStops ==
  /\ [][(pc = "mode" /\ seconds # 0) => (pc' = "walk" /\ attempts' = 0)]_vars
  /\ [](pc \in {"check", "detach", "sleep", "attach"} => attempts >= 1)
  /\ [][pc = "check" =>
          IF clock + interval < end
            THEN pc' = "detach"
            ELSE pc' = "report"]_vars
  /\ [][(pc \in {"check", "report", "print"}) =>
          UNCHANGED <<ptraceLog, attached, sleeps, attempts>>]_vars
  /\ [][(pc \in {"report", "print"}) => (pc' \in {"print", "done"})]_vars

C17_Witness ==
  /\ pc = "report"
  /\ interval >= 1
  /\ clock + interval = end
  /\ attempts >= 2
  /\ sleeps = attempts - 1

(* --------------------------- remote inspection ------------------------- *)
\* C18: the thread-state address is resolved once per run, after the first
\* successful attach and before any walk, and every GetStack call of the run
\* is passed that address.
C18_AddressResolvedOnce ==
  /\ [](/\ locates <= 1
        /\ pc = "locate" =>
             (/\ locates = 0
              /\ walkAddrs = {}
              /\ ptraceLog = <<"attach">>)
        /\ walkAddrs # {} =>
             (/\ locates = 1
              /\ addr \in Addrs
              /\ walkAddrs = {addr}))
  /\ [][addr # NoAddr => addr' = addr]_vars

C18_Witness ==
  /\ pc = "check"
  /\ locates = 1
  /\ walkAddrs = {addr}
  /\ attempts = 2
  /\ ptraceLog = <<"attach", "detach", "attach">>

\* C19: ThreadStateAddr and GetStack are only called while the target is
\* attached by this tool.
C19_InspectOnlyAttached ==
  /\ [](pc \in {"locate", "mode", "once", "walk"} => attached)
  /\ [][(locates' # locates \/ walkAddrs' # walkAddrs
           \/ attempts' # attempts) => attached]_vars

C19_Witness ==
  /\ pc = "walk"
  /\ attached
  /\ attempts = 1
  /\ sleeps = 1
  /\ Len(ptraceLog) = 3

(* ------------------------------ termination ---------------------------- *)
\* the wall clock advances by at least the requested interval (sample_rate,
\* before truncation) across a sleep, or has passed every deadline
ClockAdvancesByInterval ==
  \/ (clock' - clock) * Resolution >= sample_rate
  \/ clock' = ClockCap

LiveNext == Next /\ (pc = "sleep" => ClockAdvancesByInterval)

\* main is the only thread and every call it makes returns or throws
LiveSpec == Init /\ [][LiveNext]_vars /\ WF_vars(LiveNext)

\* C20: when the clock advances by at least the interval across each sleep,
\* a run that entered the sampling loop always reaches the exit of main,
\* whatever the outcomes of its capture attempts.
C20_SamplingTerminates == (pc = "walk") ~> (pc = "done")

C20_Witness ==
  /\ pc = "done"
  /\ seconds # 0
  /\ interval = 0
  /\ ~fatal
  /\ sleeps >= 1
  /\ exitCode = 0
====
